---- MODULE Spec2Model ----
(***************************************************************************)
(* Model of app/events/admin.go: the admin-chat handler of the spam bot.    *)
(*                                                                          *)
(* A string is a sequence of one-character strings (callback payloads), a   *)
(* line of chat text is a sequence of words and a text is a non-empty       *)
(* sequence of lines, i.e. what strings.Split(text, "\n") returns.          *)
(* Every handler is one action; the calls it makes to its collaborators     *)
(* (bot, locator, telegram api) are recorded, in order, in `calls`.         *)
(***************************************************************************)
EXTENDS Integers, Sequences, FiniteSets, TLC

\* The fields of the records of this module. TLC orders the fields of a record
\* as their names first occur in the module and sorts a record written in
\* another order; every record below lists its fields in this order.
FieldOrder ==
    [action |-> 1, body |-> 2, button |-> 3, calls |-> 4, chatID |-> 5, data |-> 6,
     dry |-> 7, errs |-> 27, exists |-> 8, forwarded |-> 9, info |-> 10, keyboard |-> 11,
     label |-> 12, msg |-> 13, msgID |-> 14, name |-> 15, ok |-> 16, op |-> 17,
     panic |-> 18, ret |-> 19, run |-> 20, text |-> 21, training |-> 22, user |-> 23,
     userID |-> 24, userName |-> 25, val |-> 26]

VARIABLES
    trainingMode,   \* admin.trainingMode
    dry,            \* admin.dry
    adminMsg,       \* the message with buttons the admin chat holds (telegram side)
    last,           \* the event handled last (the handler's input)
    calls,          \* outbound calls made by the handler that ran last, in order
    ret,            \* what that handler returned: "nil", "error" or "panic"
    errs,           \* the calls whose failure the returned error reports
    applied,        \* the calls the presses on the message held have made with success
    stale,          \* a payload not on the keyboard shown was pressed on the message held
    fnIn,           \* input of the pure function under check
    fnOut           \* its result

vars == <<trainingMode, dry, adminMsg, last, calls, ret, errs, applied, stale, fnIn, fnOut>>

----------------------------------------------------------------------------
(* Bounds *)

\* a payload that is not on the keyboard shown (a button shown earlier, or a
\* payload made up) is pressed only while the text has at most so many lines
MaxLines == 3

\* longest text given to getCleanMessage in SpecClean
MaxCleanLines == 6

\* largest user id and message id encoded in SpecCodec
MaxID == 110

----------------------------------------------------------------------------
(* Program constants *)

confirmationPrefix == <<"?">>
banPrefix == <<"+">>
infoPrefix == <<"!">>

AdminChatID == 1
PrimChatID == 2
OtherChatID == 3

----------------------------------------------------------------------------
(* Strings *)

DigitChars == <<"0", "1", "2", "3", "4", "5", "6", "7", "8", "9">>

IsDigit(c) == \E i \in 1..10 : DigitChars[i] = c

DigitVal(c) == (CHOOSE i \in 1..10 : DigitChars[i] = c) - 1

\* fmt.Sprintf("%d", n) for n >= 0
RECURSIVE FormatNat(_)
FormatNat(n) ==
    IF n < 10 THEN <<DigitChars[n + 1]>>
    ELSE FormatNat(n \div 10) \o <<DigitChars[(n % 10) + 1]>>

\* fmt.Sprintf("%d", n)
FormatInt(n) == IF n < 0 THEN <<"-">> \o FormatNat(0 - n) ELSE FormatNat(n)

RECURSIVE DigitsVal(_, _)
DigitsVal(s, acc) ==
    IF s = <<>> THEN acc ELSE DigitsVal(Tail(s), acc * 10 + DigitVal(Head(s)))

\* strconv.ParseInt(s, 10, 64) and strconv.Atoi(s): an optional sign, then digits only
ParseInt(s) ==
    LET signed == s # <<>> /\ Head(s) \in {"+", "-"}
        digits == IF signed THEN Tail(s) ELSE s
    IN  IF digits = <<>> \/ \E i \in DOMAIN digits : ~IsDigit(digits[i])
        THEN [ok |-> FALSE, val |-> 0]
        ELSE [ok |-> TRUE,
              val |-> IF signed /\ Head(s) = "-" THEN 0 - DigitsVal(digits, 0)
                      ELSE DigitsVal(digits, 0)]

\* strings.Split(s, sep) for a one-character separator
RECURSIVE Split(_, _)
Split(s, sep) ==
    IF \A i \in DOMAIN s : s[i] # sep THEN <<s>>
    ELSE LET k == CHOOSE i \in DOMAIN s :
                      s[i] = sep /\ \A j \in 1..(i - 1) : s[j] # sep
         IN  <<SubSeq(s, 1, k - 1)>> \o Split(SubSeq(s, k + 1, Len(s)), sep)

\* strings.HasPrefix on sequences
HasPrefix(s, p) == Len(s) >= Len(p) /\ SubSeq(s, 1, Len(p)) = p

----------------------------------------------------------------------------
(* Callback payloads *)

parseCallbackData_noStrip(data) ==
    IF Len(data) < 3 THEN [msgID |-> 0, ok |-> FALSE, userID |-> 0]
    ELSE LET parts == Split(data, ":")
         IN  IF Len(parts) # 2 THEN [msgID |-> 0, ok |-> FALSE, userID |-> 0]
             ELSE IF ~ParseInt(parts[1]).ok THEN [msgID |-> 0, ok |-> FALSE, userID |-> 0]
             ELSE IF ~ParseInt(parts[2]).ok THEN [msgID |-> 0, ok |-> FALSE, userID |-> 0]
             ELSE [msgID |-> ParseInt(parts[2]).val, ok |-> TRUE,
                   userID |-> ParseInt(parts[1]).val]

\* admin.parseCallbackData: (userID, msgID, err)
parseCallbackData(data) ==
    IF Len(data) < 3 THEN [msgID |-> 0, ok |-> FALSE, userID |-> 0]
    ELSE LET d == IF SubSeq(data, 1, 1) \in {confirmationPrefix, banPrefix, infoPrefix}
                  THEN SubSeq(data, 2, Len(data)) ELSE data
             parts == Split(d, ":")
         IN  IF Len(parts) # 2 THEN [msgID |-> 0, ok |-> FALSE, userID |-> 0]
             ELSE IF ~ParseInt(parts[1]).ok THEN [msgID |-> 0, ok |-> FALSE, userID |-> 0]
             ELSE IF ~ParseInt(parts[2]).ok THEN [msgID |-> 0, ok |-> FALSE, userID |-> 0]
             ELSE [msgID |-> ParseInt(parts[2]).val, ok |-> TRUE,
                   userID |-> ParseInt(parts[1]).val]

\* fmt.Sprintf("%s%d:%d", prefix, user.ID, msgID) of sendWithUnbanMarkup
ButtonData(prefix, userID, msgID) ==
    prefix \o FormatInt(userID) \o <<":">> \o FormatInt(msgID)

----------------------------------------------------------------------------
(* Chat texts: a text is the sequence of its lines, a line a sequence of words *)

EmptyText == << <<>> >>

\* a + b on strings, on their lines: the last line of a runs into the first of b
ConcatText(a, b) ==
    SubSeq(a, 1, Len(a) - 1) \o <<a[Len(a)] \o b[1]>> \o SubSeq(b, 2, Len(b))

\* strings.Join(lines, "\n")
JoinLines(lines) == IF lines = <<>> THEN EmptyText ELSE lines

RECURSIVE FlattenLines(_)
\* strings.ReplaceAll(text, "\n", " ")
FlattenLines(text) ==
    IF Len(text) = 1 THEN text[1] ELSE text[1] \o FlattenLines(Tail(text))

SpamInfoMarker == <<"spam", "detection", "results">>

\* the index (from 0) of the first line that starts with the marker, or -1
FirstMarkerLine(msgLines) ==
    IF \E i \in DOMAIN msgLines : HasPrefix(msgLines[i], SpamInfoMarker)
    THEN (CHOOSE i \in DOMAIN msgLines :
              /\ HasPrefix(msgLines[i], SpamInfoMarker)
              /\ \A j \in 1..(i - 1) : ~HasPrefix(msgLines[j], SpamInfoMarker)) - 1
    ELSE 0 - 1

getCleanMessage_upToMarker(msg) ==
    IF Len(msg) < 2 THEN [ok |-> FALSE, panic |-> FALSE, text |-> EmptyText]
    ELSE LET spamInfoLine == IF FirstMarkerLine(msg) >= 0
                             THEN FirstMarkerLine(msg) ELSE Len(msg)
         IN  IF spamInfoLine < 2 \/ spamInfoLine > Len(msg)
             THEN [ok |-> FALSE, panic |-> TRUE, text |-> EmptyText]
             ELSE [ok |-> TRUE, panic |-> FALSE,
                   text |-> JoinLines(SubSeq(msg, 3, spamInfoLine))]

\* admin.getCleanMessage: (cleanMsg, err), or a slice-bounds panic at msgLines[2:spamInfoLine]
getCleanMessage(msg) ==
    IF Len(msg) < 2 THEN [ok |-> FALSE, panic |-> FALSE, text |-> EmptyText]
    ELSE LET spamInfoLine == IF FirstMarkerLine(msg) >= 0
                             THEN FirstMarkerLine(msg) - 1 ELSE Len(msg)
         IN  IF spamInfoLine < 2 \/ spamInfoLine > Len(msg)
             THEN [ok |-> FALSE, panic |-> TRUE, text |-> EmptyText]
             ELSE [ok |-> TRUE, panic |-> FALSE,
                   text |-> JoinLines(SubSeq(msg, 3, spamInfoLine))]

\* words that are markdown markup and not part of the text shown
MarkupWords == {"**", "[", "](tg://user)"}

\* admin.extractUsername: the name in [name](tg://user?id=N), else not found
\* (the plain {id name ...} form is not produced by ReportBan)
extractUsername(text) ==
    LET hits == {<<i, j>> \in (DOMAIN text) \X (1..20) :
                    /\ j + 2 <= Len(text[i])
                    /\ text[i][j] = "["
                    /\ text[i][j + 2] = "](tg://user)"}
    IN  IF hits = {} THEN [name |-> "", ok |-> FALSE]
        ELSE LET h == CHOOSE x \in hits :
                        \A y \in hits : x[1] < y[1] \/ (x[1] = y[1] /\ x[2] <= y[2])
             IN  [name |-> text[h[1]][h[2] + 1], ok |-> TRUE]

\* what the chat holds and hands back in query.Message.Text once a text is sent:
\* with markdown parsing the markup is gone, and surrounding blank lines are trimmed
RECURSIVE TrimBlankTail(_)
TrimBlankTail(text) ==
    IF Len(text) > 1 /\ text[Len(text)] = <<>>
    THEN TrimBlankTail(SubSeq(text, 1, Len(text) - 1)) ELSE text

TgText(text, markdown) ==
    LET shown == [i \in DOMAIN text |->
                    IF markdown THEN SelectSeq(text[i], LAMBDA w : w \notin MarkupWords)
                    ELSE text[i]]
    IN  TrimBlankTail(shown)

----------------------------------------------------------------------------
(* The collaborators' data *)

\* messages of the primary chat the locator knows: the spam of bob, a message of
\* the super-user boss, and a message of a user without username whose text
\* starts with the marker words
LocatorRecords ==
    { [msgID |-> 100, text |-> << <<"buy", "cheap", "meds">> >>,
       userID |-> 7, userName |-> "bob"],
      [msgID |-> 101, text |-> << <<"hello">>, <<"from", "boss">> >>,
       userID |-> 12, userName |-> "boss"],
      [msgID |-> 3, text |-> << <<"spam", "detection", "results", "are", "in">> >>,
       userID |-> 25, userName |-> ""] }

NoRecord == [msgID |-> 0, text |-> EmptyText, userID |-> 0, userName |-> ""]

UnknownText == << <<"never", "seen">> >>

ForwardedTexts == {r.text : r \in LocatorRecords} \cup {UnknownText}

SuperUsers == {"boss"}

\* users the locator holds spam checks for
SpamChecked == {7}

\* SuperUsers.IsSuper
IsSuper(userName) == userName \in SuperUsers

\* Locator.Message: (info, found)
LocatorMessage(text) ==
    IF \E r \in LocatorRecords : r.text = text
    THEN [info |-> CHOOSE r \in LocatorRecords : r.text = text, ok |-> TRUE]
    ELSE [info |-> NoRecord, ok |-> FALSE]

\* Locator.UserNameByID
LocatorUserNameByID(userID) ==
    IF \E r \in LocatorRecords : r.userID = userID
    THEN (CHOOSE r \in LocatorRecords : r.userID = userID).userName
    ELSE ""

\* Locator.Spam: found, with one check
LocatorSpam(userID) == userID \in SpamChecked

----------------------------------------------------------------------------
(* Outbound calls *)

Call(op, user, msg, text, fails) ==
    [msg |-> msg, ok |-> op \notin fails, op |-> op, text |-> text, user |-> user]

\* the calls of cs that failed
FailedOps(cs) == {cs[i].op : i \in {j \in DOMAIN cs : ~cs[j].ok}}

\* what a handler leaves: its calls, the failures its error reports, the message, the return
ResultWith(cs, es, r, m) == [calls |-> cs, errs |-> es, msg |-> m, ret |-> r]

\* a handler that returns at its first failure, or collects every failure
Result(cs, r, m) == ResultWith(cs, IF r = "error" THEN FailedOps(cs) ELSE {}, r, m)

\* banUserOrChannel: nothing is requested for a dry or a training request
banUserOrChannel(req, fails) ==
    IF req.dry \/ req.training THEN <<>>
    ELSE <<Call("BanChatMember", req.userID, 0, EmptyText, fails)>>

Failed(cs) == \E i \in DOMAIN cs : ~cs[i].ok

----------------------------------------------------------------------------
(* ReportBan *)

NoMsg ==
    [body |-> <<>>, exists |-> FALSE, keyboard |-> <<>>, msgID |-> 0,
     text |-> EmptyText, userID |-> 0]

Button(label, data) == [data |-> data, label |-> label]

\* the keyboard sendWithUnbanMarkup attaches: ?userID:msgID and !userID:msgID
ReportKeyboard(userID, msgID) ==
    << << Button("change ban", ButtonData(confirmationPrefix, userID, msgID)),
          Button("info", ButtonData(infoPrefix, userID, msgID)) >> >>

\* forwardMsg of ReportBan: "**permanently banned [name](tg://user?id=N)**\n\n<text>\n\n"
ReportText(banUserStr, body) ==
    << <<"**", "permanently", "banned", "[", banUserStr, "](tg://user)", "**">>,
       <<>>, body, <<>>, <<>> >>

\* admin.ReportBan with sendWithUnbanMarkup: a failed send is logged only
ReportBanRun(m, fails) ==
    LET body == FlattenLines(m.text)
        text == ReportText(m.userName, body)
        cs == <<Call("SendMessage", 0, 0, text, fails)>>
    IN  IF Failed(cs) THEN Result(cs, "nil", adminMsg)
        ELSE Result(cs, "nil",
                    [body |-> body, exists |-> TRUE,
                     keyboard |-> ReportKeyboard(m.userID, m.msgID),
                     msgID |-> m.msgID, text |-> TgText(text, TRUE),
                     userID |-> m.userID])

----------------------------------------------------------------------------
(* MsgHandler *)

NotForwarded(update) == ~update.forwarded

LocatorMiss_never(loc) == FALSE

\* if !ok { return fmt.Errorf("not found ...") }
LocatorMiss(loc) == ~loc.ok

MsgFromSuper_never(userName) == FALSE

\* info.UserName != "" && a.superUsers.IsSuper(info.UserName)
MsgFromSuper(userName) == userName # "" /\ IsSuper(userName)

UpdateSpamFailed_ignored(cs) == FALSE

\* if err := a.bot.UpdateSpam(msgTxt); err != nil { return ... }
UpdateSpamFailed(cs) == ~cs[Len(cs)].ok

\* banReq of MsgHandler
MsgHandlerBanReq(info) ==
    [chatID |-> PrimChatID, dry |-> dry, training |-> trainingMode, userID |-> info.userID]

\* the notification "original detection results for ..." sent to the admin chat
DetectionResultsText(info) ==
    << <<"**", "original", "detection", "results", "for", info.userName, "**">>,
       <<>>, <<"-", "check">>, <<>>, <<>>,
       <<"*the", "user", "banned", "and", "message", "deleted*">> >>

ErrorOrNil(cs) == IF Failed(cs) THEN "error" ELSE "nil"

\* admin.MsgHandler
MsgHandlerRun(update, fails) ==
    IF NotForwarded(update) THEN Result(<<>>, "nil", adminMsg)
    ELSE
    LET loc == LocatorMessage(update.text)
        info == loc.info
        c0 == <<Call("LocatorMessage", 0, 0, update.text, {})>>
    IN
    IF LocatorMiss(loc) THEN Result(c0, "error", adminMsg)
    ELSE IF MsgFromSuper(info.userName) THEN Result(c0, "error", adminMsg)
    ELSE
    LET c1 == c0 \o <<Call("RemoveApprovedUser", info.userID, 0, EmptyText, fails),
                      Call("OnMessage", info.userID, 0, update.text, {}),
                      Call("SendMessage", 0, 0, DetectionResultsText(info), fails)>>
    IN
    IF dry THEN Result(c1, ErrorOrNil(c1), adminMsg)
    ELSE
    LET c2 == c1 \o <<Call("UpdateSpam", 0, 0, update.text, fails)>>
    IN
    IF UpdateSpamFailed(c2) THEN ResultWith(c2, {"UpdateSpam"}, "error", adminMsg)
    ELSE
    LET c3 == c2 \o <<Call("DeleteMessage", 0, info.msgID, EmptyText, fails)>>
                \o banUserOrChannel(MsgHandlerBanReq(info), fails)
    IN  Result(c3, ErrorOrNil(c3), adminMsg)

----------------------------------------------------------------------------
(* Button presses *)

\* query.From.UserName
AdminName == "admin"

Edited(query, text, markdown, keyboard) ==
    [adminMsg EXCEPT !.text = TgText(text, markdown), !.keyboard = keyboard]

UnbanData_keepPrefix(callbackData) == callbackData

\* callbackData[1:]: the payload of "Unban for real", the "?" removed
UnbanData(callbackData) == SubSeq(callbackData, 2, Len(callbackData))

\* banPrefix+callbackData[1:]: the payload of "Keep it banned" / "Confirm ban"
ConfirmBanData(callbackData) == banPrefix \o SubSeq(callbackData, 2, Len(callbackData))

\* admin.callbackAskBanConfirmation
callbackAskBanConfirmation(query, fails) ==
    LET keepBanned == IF trainingMode THEN "Confirm ban" ELSE "Keep it banned"
        confirmationKeyboard ==
            << << Button("Unban for real", UnbanData(query.data)),
                  Button(keepBanned, ConfirmBanData(query.data)) >> >>
        cs == <<Call("EditMessageReplyMarkup", 0, 0, EmptyText, fails)>>
    IN  IF Failed(cs) THEN Result(cs, "error", adminMsg)
        ELSE Result(cs, "nil", [adminMsg EXCEPT !.keyboard = confirmationKeyboard])

\* banReq of deleteAndBan: training is reset
DeleteAndBanReq(userID) ==
    [chatID |-> PrimChatID, dry |-> dry, training |-> FALSE, userID |-> userID]

BanSkippedForSuper_never(userName) == FALSE

\* msgFromSuper := userName != "" && a.superUsers.IsSuper(userName)
BanSkippedForSuper(userName) == userName # "" /\ IsSuper(userName)

\* if _, err := a.tbAPI.Request(tbapi.DeleteMessageConfig{...}); err != nil { return ... }
DeleteFailed(cs) == ~cs[Len(cs)].ok

\* admin.deleteAndBan: the calls made and the error returned
deleteAndBan(userID, msgID, fails) ==
    LET userName == LocatorUserNameByID(userID)
        msgFromSuper == BanSkippedForSuper(userName)
        c0 == <<Call("LocatorUserNameByID", userID, 0, EmptyText, {})>>
        c1 == IF msgFromSuper THEN c0
              ELSE c0 \o banUserOrChannel(DeleteAndBanReq(userID), fails)
        c2 == c1 \o <<Call("DeleteMessage", 0, msgID, EmptyText, fails)>>
    IN  [calls |-> c2,
         errs |-> IF DeleteFailed(c2) THEN {"DeleteMessage"} ELSE FailedOps(c2),
         ret |-> ErrorOrNil(c2)]

BanConfirmedLine == <<"_ban", "confirmed", "by", AdminName, "_">>

UnbannedLine == <<"_unbanned", "by", AdminName, "_">>

\* admin.callbackBanConfirmed
callbackBanConfirmed(query, fails) ==
    LET updText == ConcatText(query.text, <<<<>>, <<>>, BanConfirmedLine>>)
        c0 == <<Call("EditMessageText", 0, 0, updText, fails)>>
        m0 == Edited(query, updText, FALSE, <<>>)
        clean == getCleanMessage(query.text)
        c1 == c0 \o <<Call("UpdateSpam", 0, 0, clean.text, fails)>>
        parsed == parseCallbackData(query.data)
    IN  IF Failed(c0) THEN Result(c0, "error", adminMsg)
        ELSE IF clean.panic THEN Result(c0, "panic", m0)
        ELSE IF ~clean.ok THEN Result(c0, "error", m0)
        ELSE IF Failed(c1) THEN Result(c1, "error", m0)
        ELSE IF ~parsed.ok THEN Result(c1, "error", m0)
        ELSE IF trainingMode
             THEN LET db == deleteAndBan(parsed.userID, parsed.msgID, fails)
                  IN  ResultWith(c1 \o db.calls, db.errs, db.ret, m0)
             ELSE Result(c1, "nil", m0)

AddApprovedUserFailed_ignored(cs) == FALSE

\* if err := a.bot.AddApprovedUser(userID, name); err != nil { return ... }
AddApprovedUserFailed(cs) == ~cs[Len(cs)].ok

UnbanRequested_always == TRUE

\* if !a.trainingMode { a.tbAPI.Request(tbapi.UnbanChatMemberConfig{...}) }
UnbanRequested == ~trainingMode

\* admin.callbackUnbanConfirmed
callbackUnbanConfirmed(query, fails) ==
    LET c0 == <<Call("AnswerCallback", 0, 0, EmptyText, fails)>>
        parsed == parseCallbackData(query.data)
        clean == getCleanMessage(query.text)
        c1 == c0 \o <<Call("UpdateHam", 0, 0, clean.text, fails)>>
        c2 == IF UnbanRequested
              THEN c1 \o <<Call("UnbanChatMember", parsed.userID, 0, EmptyText, fails)>>
              ELSE c1
        name == extractUsername(query.text)
        c3 == c2 \o <<Call("AddApprovedUser", parsed.userID, 0,
                           <<<<IF name.ok THEN name.name ELSE "">>>>, fails)>>
        updText == ConcatText(query.text, <<<<>>, <<>>, UnbannedLine>>)
        c4 == c3 \o <<Call("EditMessageText", 0, 0, updText, fails)>>
    IN  IF Failed(c0) THEN Result(c0, "error", adminMsg)
        ELSE IF ~parsed.ok THEN Result(c0, "error", adminMsg)
        ELSE IF clean.panic THEN Result(c0, "panic", adminMsg)
        ELSE IF ~clean.ok THEN Result(c0, "error", adminMsg)
        ELSE IF Failed(c1) THEN Result(c1, "error", adminMsg)
        ELSE IF Failed(c2) THEN Result(c2, "error", adminMsg)
        ELSE IF AddApprovedUserFailed(c3) THEN Result(c3, "error", adminMsg)
        ELSE IF ~c4[Len(c4)].ok THEN Result(c4, "error", adminMsg)
        ELSE Result(c4, "nil", Edited(query, updText, FALSE, <<>>))

CantGetSpamInfo == <<"**", "can't", "get", "spam", "info", "**">>

\* admin.callbackShowInfo
callbackShowInfo(query, fails) ==
    LET parsed == parseCallbackData(query.data)
        userID == parsed.userID
        parseFailure == IF parsed.ok THEN <<>>
                        ELSE << <<"**", "failed", "to", "parse", "userID", "**">> >>
        found == userID # 0 /\ LocatorSpam(userID)
        spamInfo == IF found THEN parseFailure \o << <<"-", "check">> >> ELSE parseFailure
        spamInfoText == IF userID # 0 /\ Len(spamInfo) > 0 THEN JoinLines(spamInfo)
                        ELSE <<CantGetSpamInfo>>
        c0 == IF userID # 0 THEN <<Call("LocatorSpam", userID, 0, EmptyText, {})>> ELSE <<>>
        updText == ConcatText(
                       ConcatText(query.text,
                                  <<<<>>, <<>>, <<"**">> \o SpamInfoMarker \o <<"**">>, <<>>>>),
                       spamInfoText)
        confirmationKeyboard ==
            IF Len(query.keyboard) > 0
            THEN [query.keyboard EXCEPT ![1] = SubSeq(query.keyboard[1], 1, 1)]
            ELSE <<>>
        c1 == c0 \o <<Call("EditMessageText", 0, 0, updText, fails)>>
    IN  IF Failed(c1) THEN Result(c1, "error", adminMsg)
        ELSE Result(c1, "nil", Edited(query, updText, TRUE, confirmationKeyboard))

FromAdminChat_any(query) == TRUE

\* chatID != a.adminChatID: ignore callbacks from other chats
FromAdminChat(query) == query.chatID = AdminChatID

\* the handler InlineCallbackHandler hands the press to
Dispatch(callbackData) ==
    IF HasPrefix(callbackData, confirmationPrefix) THEN "AskConfirm"
    ELSE IF HasPrefix(callbackData, banPrefix) THEN "ConfirmBan"
    ELSE IF HasPrefix(callbackData, infoPrefix) THEN "ShowInfo"
    ELSE "Unban"

\* admin.InlineCallbackHandler
InlineCallbackHandlerRun(query, fails) ==
    IF ~FromAdminChat(query) THEN Result(<<>>, "nil", adminMsg)
    ELSE CASE Dispatch(query.data) = "AskConfirm" -> callbackAskBanConfirmation(query, fails)
           [] Dispatch(query.data) = "ConfirmBan" -> callbackBanConfirmed(query, fails)
           [] Dispatch(query.data) = "ShowInfo" -> callbackShowInfo(query, fails)
           [] OTHER -> callbackUnbanConfirmed(query, fails)

----------------------------------------------------------------------------
(* Events *)

Prefixes == {<<>>, confirmationPrefix, banPrefix, infoPrefix}

\* payloads parseCallbackData rejects: too short, no colon, a half that is no integer
MalformedBodies ==
    { <<"7">>, <<"7", "1", "0", "0">>, <<"7", ":", "x">> }

MalformedPayloads == {p \o b : p \in Prefixes, b \in MalformedBodies}

\* the payloads of every button the message has carried or will carry
MessagePayloads(m) == {ButtonData(p, m.userID, m.msgID) : p \in Prefixes}

KeyboardButtons(keyboard) ==
    UNION {{keyboard[i][j] : j \in DOMAIN keyboard[i]} : i \in DOMAIN keyboard}

\* a press of a button shown, of a button shown earlier, or a payload made up
Presses(m) ==
    {[button |-> b.label, data |-> b.data] : b \in KeyboardButtons(m.keyboard)}
    \cup IF Len(m.text) <= MaxLines
         THEN {[button |-> "none", data |-> d] :
                  d \in MessagePayloads(m) \cup MalformedPayloads}
         ELSE {}

\* the calls of each handler that can fail
FailPoints(handler) ==
    CASE handler = "AskConfirm" -> {"EditMessageReplyMarkup"}
      [] handler = "ConfirmBan" ->
             {"EditMessageText", "UpdateSpam", "BanChatMember", "DeleteMessage"}
      [] handler = "ShowInfo" -> {"EditMessageText"}
      [] handler = "Unban" ->
             {"AnswerCallback", "UpdateHam", "UnbanChatMember", "AddApprovedUser",
              "EditMessageText"}
      [] handler = "MsgHandler" ->
             {"RemoveApprovedUser", "SendMessage", "UpdateSpam", "DeleteMessage",
              "BanChatMember"}
      [] OTHER -> {"SendMessage"}

\* the calls that fail while one event is handled: none, one, or the ban and the
\* delete together
FailSets(handler) ==
    {{}} \cup {{op} : op \in FailPoints(handler)}
         \cup {fs \in {{"BanChatMember", "DeleteMessage"}} : fs \subseteq FailPoints(handler)}

NoEvent ==
    [button |-> "none", chatID |-> 0, data |-> <<>>, forwarded |-> FALSE,
     op |-> "none", text |-> EmptyText]

NotRun == [ok |-> FALSE, panic |-> FALSE, run |-> FALSE, text |-> EmptyText]

\* the calls whose success is remembered for the message held
TrackedOps ==
    {"UpdateSpam", "UpdateHam", "BanChatMember", "DeleteMessage", "UnbanChatMember",
     "AddApprovedUser"}

Succeeded(cs) == {cs[i].op : i \in {j \in DOMAIN cs : cs[j].ok}}

OnKeyboard(m, data) == \E b \in KeyboardButtons(m.keyboard) : b.data = data

Handled(event, r) ==
    /\ last' = event
    /\ calls' = r.calls
    /\ ret' = r.ret
    /\ errs' = r.errs
    /\ adminMsg' = r.msg
    /\ UNCHANGED <<trainingMode, dry, fnIn, fnOut>>

Init ==
    /\ trainingMode \in BOOLEAN
    /\ dry \in BOOLEAN
    /\ adminMsg = NoMsg
    /\ last = NoEvent
    /\ calls = <<>>
    /\ ret = "nil"
    /\ errs = {}
    /\ applied = {}
    /\ stale = FALSE
    /\ fnIn = EmptyText
    /\ fnOut = NotRun

\* the bot reports a ban (in training mode: a detection) to the admin chat
ReportBan ==
    \E m \in LocatorRecords, fails \in FailSets("ReportBan") :
        \E r \in {ReportBanRun(m, fails)} :
            /\ Handled([NoEvent EXCEPT !.op = "ReportBan", !.text = m.text], r)
            /\ applied' = IF Failed(r.calls) THEN applied ELSE {}
            /\ stale' = IF Failed(r.calls) THEN stale ELSE FALSE

\* a message arrives in the admin chat
MsgHandler ==
    \E forwarded \in BOOLEAN, text \in ForwardedTexts :
      \E fails \in IF forwarded THEN FailSets("MsgHandler") ELSE {{}} :
        \E r \in {MsgHandlerRun([forwarded |-> forwarded, text |-> text], fails)} :
            /\ Handled([NoEvent EXCEPT !.op = "MsgHandler", !.forwarded = forwarded,
                                       !.text = text], r)
            /\ UNCHANGED <<applied, stale>>

\* a button of the admin message is pressed
InlineCallbackHandler ==
    /\ adminMsg.exists
    /\ \E chatID \in {AdminChatID, OtherChatID}, press \in Presses(adminMsg) :
         \E fails \in IF chatID = AdminChatID THEN FailSets(Dispatch(press.data))
                       ELSE {{}} :
            \E r \in {InlineCallbackHandlerRun(
                           [chatID |-> chatID, data |-> press.data,
                            keyboard |-> adminMsg.keyboard, text |-> adminMsg.text],
                           fails)} :
                /\ Handled([NoEvent EXCEPT !.op = Dispatch(press.data),
                                           !.data = press.data, !.chatID = chatID,
                                           !.text = adminMsg.text,
                                           !.button = press.button], r)
                /\ applied' = applied \cup (Succeeded(r.calls) \cap TrackedOps)
                /\ stale' = (stale \/ (chatID = AdminChatID
                                         /\ ~OnKeyboard(adminMsg, press.data)))

Next == ReportBan \/ MsgHandler \/ InlineCallbackHandler

Spec == Init /\ [][Next]_vars

----------------------------------------------------------------------------
(* getCleanMessage on its own: every text of up to MaxCleanLines lines *)

CleanLines ==
    { <<>>, <<"body1">>, <<"body2">>, SpamInfoMarker, SpamInfoMarker \o <<"-", "x">> }

RECURSIVE TextsUpTo(_)
TextsUpTo(n) ==
    IF n = 1 THEN {<<l>> : l \in CleanLines}
    ELSE TextsUpTo(n - 1)
         \cup {Append(t, l) : t \in {u \in TextsUpTo(n - 1) : Len(u) = n - 1},
                              l \in CleanLines}

InitClean ==
    /\ trainingMode = FALSE
    /\ dry = FALSE
    /\ adminMsg = NoMsg
    /\ last = NoEvent
    /\ calls = <<>>
    /\ ret = "nil"
    /\ errs = {}
    /\ applied = {}
    /\ stale = FALSE
    /\ fnIn \in TextsUpTo(MaxCleanLines)
    /\ fnOut = NotRun

CleanMessage ==
    /\ ~fnOut.run
    /\ \E clean \in {getCleanMessage(fnIn)} :
         fnOut' = [ok |-> clean.ok, panic |-> clean.panic, run |-> TRUE,
                   text |-> clean.text]
    /\ UNCHANGED <<trainingMode, dry, adminMsg, last, calls, ret, errs, applied, stale, fnIn>>

NextClean == CleanMessage

SpecClean == InitClean /\ [][NextClean]_vars

----------------------------------------------------------------------------
(* The payload codec on its own: every action, ids 0..MaxID *)

Actions == {"Unban", "AskConfirm", "ConfirmBan", "ShowInfo"}

\* the payload the code puts on the button of an action: sendWithUnbanMarkup
\* builds the "?" and "!" payloads, callbackAskBanConfirmation derives the other
\* two from the "?" payload it is pressed with
Encode(action, userID, msgID) ==
    CASE action = "AskConfirm" -> ButtonData(confirmationPrefix, userID, msgID)
      [] action = "ShowInfo" -> ButtonData(infoPrefix, userID, msgID)
      [] action = "Unban" -> UnbanData(ButtonData(confirmationPrefix, userID, msgID))
      [] OTHER -> ConfirmBanData(ButtonData(confirmationPrefix, userID, msgID))

NotDecoded ==
    [action |-> "none", msgID |-> 0, ok |-> FALSE, run |-> FALSE, userID |-> 0]

InitCodec ==
    /\ trainingMode = FALSE
    /\ dry = FALSE
    /\ adminMsg = NoMsg
    /\ last = NoEvent
    /\ calls = <<>>
    /\ ret = "nil"
    /\ errs = {}
    /\ applied = {}
    /\ stale = FALSE
    /\ fnIn \in [action : Actions, msgID : 0..MaxID, userID : 0..MaxID]
    /\ fnOut = NotDecoded

Decode ==
    /\ ~fnOut.run
    /\ \E data \in {Encode(fnIn.action, fnIn.userID, fnIn.msgID)} :
         \E parsed \in {parseCallbackData(data)} :
            fnOut' = [action |-> Dispatch(data), msgID |-> parsed.msgID,
                      ok |-> parsed.ok, run |-> TRUE, userID |-> parsed.userID]
    /\ UNCHANGED <<trainingMode, dry, adminMsg, last, calls, ret, errs, applied, stale, fnIn>>

NextCodec == Decode

SpecCodec == InitCodec /\ [][NextCodec]_vars

----------------------------------------------------------------------------
(* Properties *)

HasCall(op) == \E i \in DOMAIN calls : calls[i].op = op

CallsOf(ops) == SelectSeq(calls, LAMBDA c : c.op \in ops)

OpsOf(cs) == [i \in DOMAIN cs |-> cs[i].op]

PressHandled ==
    last.op \in Actions /\ last.chatID = AdminChatID

\* what a handler changes or sends: everything but the locator's lookups and the
\* classifier's check
EffectOps ==
    {"RemoveApprovedUser", "AddApprovedUser", "UpdateSpam", "UpdateHam", "SendMessage",
     "EditMessageText", "EditMessageReplyMarkup", "AnswerCallback", "DeleteMessage",
     "BanChatMember", "UnbanChatMember"}

TransportMutations == {"DeleteMessage", "BanChatMember", "UnbanChatMember"}

ForwardedReport == last.op = "MsgHandler" /\ last.forwarded

Located == \E r \in LocatorRecords : r.text = last.text

LocatedRecord == CHOOSE r \in LocatorRecords : r.text = last.text

\* C1: a press in the admin chat with a malformed payload returns an error and
\* makes no edit, no acknowledgement, no sample update, no ban, unban or delete
\* and no approved-list change, whatever the prefix
C1_MalformedPayloadRejected ==
    (PressHandled /\ last.data \in MalformedPayloads)
        => (ret = "error" /\ CallsOf(EffectOps) = <<>>)

\* C2: a forwarded report whose record has a super-user's name returns an error
\* and removes, notifies, updates, deletes and bans nothing
C2_SuperUserProtected ==
    (ForwardedReport /\ Located /\ LocatedRecord.userName \in SuperUsers)
        => (ret = "error" /\ CallsOf(EffectOps) = <<>>)

C2_Witness ==
    /\ ForwardedReport /\ Located /\ LocatedRecord.userName \in SuperUsers
    /\ ret = "error"

\* C3: in dry mode no handler (forwarded report, confirmed ban, unban) requests
\* a delete, a ban or an unban from the transport
C3_DryNoTransportMutation ==
    (dry /\ (ForwardedReport \/ PressHandled))
        => CallsOf(TransportMutations) = <<>>

\* C4: a forwarded report of a located user who is no super-user, dry mode off,
\* sample update succeeding, calls RemoveApprovedUser, the notification send,
\* UpdateSpam, the delete of the original message and the ban, in this order
C4_ForwardedReportOrder ==
    (/\ ForwardedReport /\ Located /\ LocatedRecord.userName \notin SuperUsers
     /\ ~dry
     /\ \A i \in DOMAIN calls : calls[i].op = "UpdateSpam" => calls[i].ok)
        => /\ OpsOf(CallsOf(EffectOps)) =
                <<"RemoveApprovedUser", "SendMessage", "UpdateSpam", "DeleteMessage",
                  "BanChatMember">>
           /\ CallsOf({"RemoveApprovedUser"})[1].user = LocatedRecord.userID
           /\ CallsOf({"UpdateSpam"})[1].text = last.text
           /\ CallsOf({"DeleteMessage"})[1].msg = LocatedRecord.msgID
           /\ CallsOf({"BanChatMember"})[1].user = LocatedRecord.userID

\* C5: the payload built for the button of an action is dispatched to the
\* handler of that action and parses to the user id and message id it was built
\* from
C5_PayloadRoundTrip ==
    fnOut.run
        => /\ fnOut.action = fnIn.action
           /\ fnOut.ok
           /\ fnOut.userID = fnIn.userID
           /\ fnOut.msgID = fnIn.msgID

C5_Witness ==
    /\ fnOut.run /\ fnIn.action = "ConfirmBan"
    /\ fnIn.userID = 107 /\ fnIn.msgID = 0
    /\ fnOut.action = "ConfirmBan" /\ fnOut.userID = 107 /\ fnOut.msgID = 0

\* the line (from 1) of the first line that starts with the marker: the text is
\* a header without the marker, a blank line, one or more body lines without
\* the marker, and then the marker line
C6MarkerAt(t) ==
    CHOOSE k \in 1..(Len(t) + 1) :
        /\ \A j \in 1..(k - 1) : j <= Len(t) /\ ~HasPrefix(t[j], SpamInfoMarker)
        /\ k <= Len(t) => HasPrefix(t[k], SpamInfoMarker)

C6Shape(t) ==
    /\ Len(t) >= 4
    /\ t[2] = <<>>
    /\ C6MarkerAt(t) >= 4
    /\ C6MarkerAt(t) <= Len(t)

\* C6 as claimed: the lines from line 3 up to the line directly above the marker
C6_CleanUpToMarker ==
    (fnOut.run /\ C6Shape(fnIn))
        => (fnOut.ok /\ fnOut.text = SubSeq(fnIn, 3, C6MarkerAt(fnIn) - 1))

\* C6 as amended: getCleanMessage returns the lines from line 3 up to, and
\* without, the line directly above the marker line (the blank line that
\* separates the results section in a rendered message); it is the empty
\* string when there is one body line only
C6_CleanDropsLineAboveMarker ==
    (fnOut.run /\ C6Shape(fnIn))
        => /\ fnOut.ok /\ ~fnOut.panic
           /\ fnOut.text = IF C6MarkerAt(fnIn) = 4 THEN EmptyText
                            ELSE SubSeq(fnIn, 3, C6MarkerAt(fnIn) - 2)

C6_Witness ==
    /\ fnOut.run
    /\ fnIn = << <<"body1">>, <<>>, <<"body1">>, <<"body2">>, SpamInfoMarker,
                 SpamInfoMarker \o <<"-", "x">> >>
    /\ fnOut.ok
    /\ fnOut.text = << <<"body1">> >>

\* C7: a forwarded text the locator does not know returns an error and removes,
\* checks, notifies, updates, deletes and bans nothing
C7_NotFoundNoEffect ==
    (ForwardedReport /\ ~Located)
        => (ret = "error" /\ CallsOf(EffectOps \cup {"OnMessage"}) = <<>>)

C7_Witness ==
    ForwardedReport /\ last.text = UnknownText /\ ret = "error"

\* C8: dry mode off, a failed UpdateSpam of a forwarded report is followed by no
\* delete and no ban, and the handler returns an error
C8_UpdateSpamFailureStops ==
    (/\ ForwardedReport /\ ~dry
     /\ \E i \in DOMAIN calls : calls[i].op = "UpdateSpam" /\ ~calls[i].ok)
        => /\ ret = "error"
           /\ CallsOf({"DeleteMessage", "BanChatMember"}) = <<>>
           /\ calls[Len(calls)].op = "UpdateSpam"

C8_Witness ==
    /\ ForwardedReport /\ ~dry /\ ~trainingMode
    /\ \E i \in DOMAIN calls : calls[i].op = "UpdateSpam" /\ ~calls[i].ok
    /\ HasCall("RemoveApprovedUser")
    /\ ret = "error"

\* C9: a press whose chat is not the admin chat returns no error and makes no
\* call at all, whatever the payload
C9_OtherChatIgnored ==
    (last.op \in Actions /\ last.chatID # AdminChatID)
        => (ret = "nil" /\ calls = <<>>)

\* C9: and the message is left as it was
C9_OtherChatLeavesMessage ==
    [][(last'.op \in Actions /\ last'.chatID # AdminChatID) => adminMsg' = adminMsg]_vars

C9_Witness ==
    /\ last.op = "ConfirmBan" /\ last.chatID = OtherChatID
    /\ last.button = "Confirm ban"
    /\ ret = "nil"

\* C10: a forwarded report of a located user who is no super-user requests the
\* ban when dry mode is off (the sample update succeeding), training mode or
\* not, and requests no ban when dry mode is on
C10_BannedEvenInTraining ==
    (ForwardedReport /\ Located /\ LocatedRecord.userName \notin SuperUsers)
        => /\ dry => ~HasCall("BanChatMember")
           /\ (/\ ~dry
               /\ \A i \in DOMAIN calls : calls[i].op = "UpdateSpam" => calls[i].ok)
                  => HasCall("BanChatMember")

\* the user ids and the message ids of the super-users the locator knows
SuperUserIDs == {r.userID : r \in {x \in LocatorRecords : x.userName \in SuperUsers}}

SuperMsgIDs == {r.msgID : r \in {x \in LocatorRecords : x.userName \in SuperUsers}}

BansSuperUser(c) == c.op = "BanChatMember" /\ c.user \in SuperUserIDs

DeletesSuperMessage(c) == c.op = "DeleteMessage" /\ c.msg \in SuperMsgIDs

\* C11 as claimed: no handler, forwarded report or confirmed ban, requests a ban
\* of a super-user or the delete of a super-user's message
C11_NoActionAgainstSuperUser ==
    \A i \in DOMAIN calls : ~BansSuperUser(calls[i]) /\ ~DeletesSuperMessage(calls[i])

\* C11 as amended: no handler requests a ban of a super-user, and a forwarded
\* report requests no delete of a super-user's message; a confirmed ban in
\* training mode does request the delete of the message, a super-user's too
C11_NoBanOfSuperUser ==
    /\ \A i \in DOMAIN calls : ~BansSuperUser(calls[i])
    /\ ForwardedReport => \A i \in DOMAIN calls : ~DeletesSuperMessage(calls[i])
    /\ (/\ PressHandled /\ last.op = "ConfirmBan" /\ trainingMode
        /\ parseCallbackData(last.data).ok
        /\ parseCallbackData(last.data).userID \in SuperUserIDs
        /\ HasCall("UpdateSpam") /\ ~Failed(CallsOf({"UpdateSpam"})))
           => \E i \in DOMAIN calls :
                 /\ calls[i].op = "DeleteMessage"
                 /\ calls[i].msg = parseCallbackData(last.data).msgID

C11_Witness ==
    /\ PressHandled /\ last.op = "ConfirmBan" /\ trainingMode
    /\ last.button = "Confirm ban"
    /\ \E i \in DOMAIN calls : DeletesSuperMessage(calls[i]) /\ calls[i].ok
    /\ ~HasCall("BanChatMember")
    /\ ret = "nil"

\* a ConfirmBan press in the admin chat whose payload parses, whose message edit
\* and body extraction succeeded and whose UpdateSpam succeeded
ConfirmBanDone ==
    /\ PressHandled /\ last.op = "ConfirmBan"
    /\ parseCallbackData(last.data).ok
    /\ HasCall("UpdateSpam") /\ ~Failed(CallsOf({"EditMessageText", "UpdateSpam"}))

PressedUserIsSuper == parseCallbackData(last.data).userID \in SuperUserIDs

\* C12: such a ConfirmBan press (for a user who is no super-user) requests the
\* delete and the ban when training mode is on; when it is off it requests
\* neither, and only edits the message (annotation, keyboard cleared) and calls
\* UpdateSpam with the recovered body
C12_DeleteAndBanIffTraining ==
    (ConfirmBanDone /\ ~PressedUserIsSuper)
        => /\ trainingMode => (HasCall("DeleteMessage") /\ HasCall("BanChatMember"))
           /\ ~trainingMode =>
                /\ OpsOf(calls) = <<"EditMessageText", "UpdateSpam">>
                /\ CallsOf({"UpdateSpam"})[1].text = getCleanMessage(last.text).text
                /\ adminMsg.keyboard = <<>>
                /\ adminMsg.text[Len(adminMsg.text)] = BanConfirmedLine

\* C13: in training mode such a ConfirmBan press for a user who is no super-user
\* requests the ban and the delete, dry mode on or off
C13_TrainingConfirmIgnoresDry ==
    (ConfirmBanDone /\ trainingMode /\ ~PressedUserIsSuper)
        => /\ \E i \in DOMAIN calls :
                 /\ calls[i].op = "BanChatMember"
                 /\ calls[i].user = parseCallbackData(last.data).userID
           /\ \E i \in DOMAIN calls :
                 /\ calls[i].op = "DeleteMessage"
                 /\ calls[i].msg = parseCallbackData(last.data).msgID

\* an Unban press in the admin chat whose payload parses
UnbanPress ==
    PressHandled /\ last.op = "Unban" /\ parseCallbackData(last.data).ok

\* the calls of a whole Unban press, in order
UnbanSteps ==
    IF trainingMode
    THEN <<"AnswerCallback", "UpdateHam", "AddApprovedUser", "EditMessageText">>
    ELSE <<"AnswerCallback", "UpdateHam", "UnbanChatMember", "AddApprovedUser",
           "EditMessageText">>

\* C14: an Unban press with a valid payload requests the unban exactly when
\* training mode is off; its calls are, in this order, the acknowledgement,
\* UpdateHam with the recovered body, the unban (training mode off),
\* AddApprovedUser and the edit that appends "unbanned by" and clears the
\* keyboard; a press that returns no error has made them all
C14_UnbanOrder ==
    UnbanPress
        => /\ HasCall("UnbanChatMember") => ~trainingMode
           /\ Len(calls) >= 1 /\ Len(calls) <= Len(UnbanSteps)
           /\ OpsOf(calls) = SubSeq(UnbanSteps, 1, Len(calls))
           /\ \A i \in DOMAIN calls :
                 /\ calls[i].op = "UpdateHam"
                       => calls[i].text = getCleanMessage(last.text).text
                 /\ calls[i].op \in {"UnbanChatMember", "AddApprovedUser"}
                       => calls[i].user = parseCallbackData(last.data).userID
                 /\ i < Len(calls) => calls[i].ok
           /\ ret = "nil"
                 => /\ OpsOf(calls) = UnbanSteps
                    /\ adminMsg.keyboard = <<>>
                    /\ adminMsg.text[Len(adminMsg.text)] = UnbannedLine
           /\ ret # "nil" => adminMsg.text = last.text

C14_Witness ==
    /\ UnbanPress /\ ~trainingMode /\ last.button = "Unban for real"
    /\ ret = "nil"
    /\ OpsOf(calls) = <<"AnswerCallback", "UpdateHam", "UnbanChatMember",
                        "AddApprovedUser", "EditMessageText">>
    /\ adminMsg.keyboard = <<>>

\* an AskConfirm press in the admin chat with a payload ?U:M
AskConfirmPress ==
    PressHandled /\ last.op = "AskConfirm" /\ parseCallbackData(last.data).ok

\* C15: an AskConfirm press with payload ?U:M makes one call, the edit of the
\* keyboard, which then is one row of two buttons with the payloads U:M and
\* +U:M; the text stays as it was and no sample update, ban, unban, delete or
\* approved-list call is made, training mode on or off; when the edit fails the
\* keyboard stays too
C15_AskConfirmOnlyKeyboard ==
    AskConfirmPress
        => LET U == parseCallbackData(last.data).userID
               M == parseCallbackData(last.data).msgID
           IN  /\ OpsOf(calls) = <<"EditMessageReplyMarkup">>
               /\ adminMsg.text = last.text
               /\ ret = IF calls[1].ok THEN "nil" ELSE "error"
               /\ ret = "nil"
                    => /\ Len(adminMsg.keyboard) = 1
                       /\ Len(adminMsg.keyboard[1]) = 2
                       /\ adminMsg.keyboard[1][1].data = ButtonData(<<>>, U, M)
                       /\ adminMsg.keyboard[1][2].data = ButtonData(banPrefix, U, M)
                       /\ Dispatch(adminMsg.keyboard[1][1].data) = "Unban"
                       /\ Dispatch(adminMsg.keyboard[1][2].data) = "ConfirmBan"

\* C15: and nothing of the message but the keyboard changes
C15_AskConfirmFrame ==
    [][(last'.op = "AskConfirm" /\ last'.chatID = AdminChatID)
          => /\ adminMsg'.text = adminMsg.text
             /\ adminMsg'.body = adminMsg.body
             /\ adminMsg'.userID = adminMsg.userID
             /\ adminMsg'.msgID = adminMsg.msgID
             /\ applied' = applied]_vars

C15_Witness ==
    /\ AskConfirmPress /\ trainingMode /\ last.button = "change ban"
    /\ ret = "nil"
    /\ adminMsg.keyboard[1][1].label = "Unban for real"
    /\ adminMsg.keyboard[1][2].label = "Confirm ban"
    /\ adminMsg.keyboard[1][2].data = <<"+", "7", ":", "1", "0", "0">>

\* the buttons of a keyboard that decide (ask, unban, confirm), not the info button
DecisionButtons(keyboard) ==
    {b \in KeyboardButtons(keyboard) : Dispatch(b.data) # "ShowInfo"}

\* C16: a ShowInfo press in the admin chat leaves every decision button the
\* keyboard carried (AskConfirm in the reported state; Unban and ConfirmBan
\* when a confirmation is awaited) on the keyboard, and removes at most the
\* info button; the press carries the info payload of the message
C16_ShowInfoKeepsDecisionButtons ==
    [][(/\ last'.op = "ShowInfo" /\ last'.chatID = AdminChatID
        /\ last'.data = ButtonData(infoPrefix, adminMsg.userID, adminMsg.msgID))
          => DecisionButtons(adminMsg'.keyboard) = DecisionButtons(adminMsg.keyboard)]_vars

\* a forwarded report that reaches the delete and the ban: dry and training mode
\* off, the user located and no super-user, UpdateSpam succeeding
ForwardedDeleteAndBan ==
    /\ ForwardedReport /\ ~dry /\ ~trainingMode
    /\ Located /\ LocatedRecord.userName \notin SuperUsers
    /\ HasCall("UpdateSpam") /\ ~Failed(CallsOf({"UpdateSpam"}))

\* a confirmed ban that reaches deleteAndBan: training mode on, dry mode off, the
\* user no super-user
ConfirmedDeleteAndBan ==
    ConfirmBanDone /\ trainingMode /\ ~dry /\ ~PressedUserIsSuper

\* C17: on both paths that ban and delete, the ban and the delete are both
\* requested, whichever of them fails, and the error returned reports every one
\* of the two that failed
C17_BanAndDeleteCollected ==
    (ForwardedDeleteAndBan \/ ConfirmedDeleteAndBan)
        => /\ HasCall("BanChatMember") /\ HasCall("DeleteMessage")
           /\ FailedOps(CallsOf({"BanChatMember", "DeleteMessage"})) \subseteq errs
           /\ Failed(calls) => ret = "error"

\* C18: as long as every press on the message held was a press of a button of
\* the keyboard shown, UpdateSpam and UpdateHam have not both succeeded for the
\* message, whichever calls failed
C18_SpamOrHamNotBoth ==
    ~stale => ~({"UpdateSpam", "UpdateHam"} \subseteq applied)

\* the message held shows a terminal annotation and no keyboard
Annotated(line) ==
    /\ adminMsg.exists /\ adminMsg.keyboard = <<>>
    /\ \E i \in DOMAIN adminMsg.text : adminMsg.text[i] = line

\* C19 as claimed: a message that shows "ban confirmed by" and no keyboard has had its
\* UpdateSpam succeed (and in training mode, dry mode off, the user no
\* super-user, its delete and ban too); one that shows "unbanned by" has had
\* UpdateHam, AddApprovedUser and, training mode off, the unban succeed. Every
\* press was a press of a button shown, and the body does not start with the
\* marker words
C19_AnnotationAfterEffects ==
    (~stale /\ ~HasPrefix(adminMsg.body, SpamInfoMarker))
        => /\ Annotated(BanConfirmedLine)
                => /\ "UpdateSpam" \in applied
                   /\ (trainingMode /\ ~dry /\ adminMsg.userID \notin SuperUserIDs)
                         => {"DeleteMessage", "BanChatMember"} \subseteq applied
           /\ Annotated(UnbannedLine)
                => /\ {"UpdateHam", "AddApprovedUser"} \subseteq applied
                   /\ ~trainingMode => "UnbanChatMember" \in applied

\* C19 as amended: a message that shows "unbanned by" and no keyboard has had
\* UpdateHam, AddApprovedUser and, training mode off, the unban request succeed;
\* "ban confirmed by" is written before UpdateSpam and the delete and ban are
\* tried, and says nothing of their success
C19_UnbannedAfterEffects ==
    Annotated(UnbannedLine)
        => /\ {"UpdateHam", "AddApprovedUser"} \subseteq applied
           /\ ~trainingMode => "UnbanChatMember" \in applied

C19_Witness ==
    /\ PressHandled /\ last.op = "Unban" /\ last.button = "Unban for real"
    /\ ~trainingMode /\ ret = "nil"
    /\ Annotated(UnbannedLine)
    /\ applied = {"UpdateHam", "UnbanChatMember", "AddApprovedUser"}

\* a ConfirmBan or Unban press in the admin chat on the message as ReportBan
\* rendered it, with or without the results section of ShowInfo, and with no
\* terminal annotation yet
DecisionPress ==
    /\ PressHandled /\ last.op \in {"ConfirmBan", "Unban"}
    /\ parseCallbackData(last.data).ok
    /\ \A i \in DOMAIN last.text : last.text[i] \notin {BanConfirmedLine, UnbannedLine}

SampleUpdates == CallsOf({"UpdateSpam", "UpdateHam"})

C21_CleanMessageTotal ==
    fnOut.run => ~fnOut.panic

====
